---- MODULE Spec2Model ----
(***************************************************************************)
(* The classify-waste edge function (src/unnamed/part_000): one handler    *)
(* invocation from the inbound request to the response, with the           *)
(* JavaScript value semantics its normalisation code depends on.           *)
(*                                                                         *)
(* Text is a sequence of one-character strings.  Numbers are integers in   *)
(* hundredths (0.8 is 80, 1 is One), which is exact for every number the   *)
(* handler computes from inputs with at most two decimals.                 *)
(***************************************************************************)
EXTENDS Integers, Sequences, FiniteSets, TLC

(***************************************************************************)
(* JavaScript values.                                                      *)
(***************************************************************************)
Undefined == [t |-> "undefined"]
Null == [t |-> "null"]
NaN == [t |-> "nan"]
Num(n) == [t |-> "number", n |-> n]
Str(s) == [t |-> "string", s |-> s]
Bool(b) == [t |-> "boolean", b |-> b]
\* an object is its member list in source order, each member [k, v]
Obj(m) == [t |-> "object", m |-> m]
Arr(a) == [t |-> "array", a |-> a]

\* the literal 1 of Math.min(..., 1), in hundredths
One == 100
\* result.confidence || 0.8
DefaultConfidence == 80
\* confidence: 0.75 of the keyword fallback
FallbackConfidence == 75
\* aiResponse.substring(0, 200)
ReasoningLimit == 200

(***************************************************************************)
(* Characters and strings.                                                 *)
(***************************************************************************)
Digits == {"0", "1", "2", "3", "4", "5", "6", "7", "8", "9"}

DigitVal(c) ==
    CASE c = "0" -> 0 [] c = "1" -> 1 [] c = "2" -> 2 [] c = "3" -> 3
      [] c = "4" -> 4 [] c = "5" -> 5 [] c = "6" -> 6 [] c = "7" -> 7
      [] c = "8" -> 8 [] c = "9" -> 9

\* JSON and StringToNumber whitespace; the inputs use the space only
IsWs(c) == c = " "

Lower(c) ==
    CASE c = "A" -> "a" [] c = "B" -> "b" [] c = "C" -> "c" [] c = "D" -> "d"
      [] c = "E" -> "e" [] c = "F" -> "f" [] c = "G" -> "g" [] c = "H" -> "h"
      [] c = "I" -> "i" [] c = "J" -> "j" [] c = "K" -> "k" [] c = "L" -> "l"
      [] c = "M" -> "m" [] c = "N" -> "n" [] c = "O" -> "o" [] c = "P" -> "p"
      [] c = "Q" -> "q" [] c = "R" -> "r" [] c = "S" -> "s" [] c = "T" -> "t"
      [] c = "U" -> "u" [] c = "V" -> "v" [] c = "W" -> "w" [] c = "X" -> "x"
      [] c = "Y" -> "y" [] c = "Z" -> "z" [] OTHER -> c

\* String.prototype.toLowerCase
ToLowerCase(s) == [i \in 1..Len(s) |-> Lower(s[i])]

\* String.prototype.includes
Includes(s, sub) ==
    \E i \in 1..(Len(s) - Len(sub) + 1) : SubSeq(s, i, i + Len(sub) - 1) = sub

\* String.prototype.substring(0, n)
Substring0(s, n) == SubSeq(s, 1, IF Len(s) < n THEN Len(s) ELSE n)

\* the first index >= i of character c in s, 0 when there is none
IndexFrom(s, c, i) ==
    LET at == {k \in i..Len(s) : s[k] = c}
    IN  IF at = {} THEN 0 ELSE CHOOSE k \in at : \A l \in at : k <= l

\* the last index <= i of character c in s, 0 when there is none
LastIndexFrom(s, c, i) ==
    LET at == {k \in 1..i : s[k] = c}
    IN  IF at = {} THEN 0 ELSE CHOOSE k \in at : \A l \in at : l <= k

\* aiResponse.match(/\{[\s\S]*\}/): leftmost "{", then greedily to the last "}"
MatchBraces(s) ==
    LET i == IndexFrom(s, "{", 1)
        j == LastIndexFrom(s, "}", Len(s))
    IN  IF i = 0 \/ j < i
        THEN [found |-> FALSE, m |-> <<>>]
        ELSE [found |-> TRUE, m |-> SubSeq(s, i, j)]

(***************************************************************************)
(* JSON.parse: a recursive-descent parser over the text.  A parse step     *)
(* returns [ok, v, i]: whether it succeeded, the value, and the index of   *)
(* the first character after it.  Not modelled, and absent from the        *)
(* inputs: backslash escapes, exponents, more than two decimals.           *)
(***************************************************************************)
Fail == [ok |-> FALSE, v |-> Undefined, i |-> 0]
Ok(v, i) == [ok |-> TRUE, v |-> v, i |-> i]

RECURSIVE SkipWs(_, _)
SkipWs(s, i) == IF i <= Len(s) /\ IsWs(s[i]) THEN SkipWs(s, i + 1) ELSE i

RECURSIVE DigitsEnd(_, _)
DigitsEnd(s, i) ==
    IF i <= Len(s) /\ s[i] \in Digits THEN DigitsEnd(s, i + 1) ELSE i

RECURSIVE DigitsVal(_, _, _)
\* the value of the digits s[i..j-1]
DigitsVal(s, i, j) ==
    IF j <= i THEN 0 ELSE DigitsVal(s, i, j - 1) * 10 + DigitVal(s[j - 1])

\* the hundredths written by the fraction digits s[i..j-1]
FracVal(s, i, j) ==
    IF j <= i THEN 0
    ELSE IF j = i + 1 THEN DigitVal(s[i]) * 10
    ELSE DigitsVal(s, i, i + 2)

ParseNumber(s, i) ==
    LET neg == s[i] = "-"
        a == IF neg THEN i + 1 ELSE i
        b == IF a <= Len(s) /\ s[a] = "0" THEN a + 1 ELSE DigitsEnd(s, a)
        hasFrac == b <= Len(s) /\ s[b] = "."
        c == IF hasFrac THEN DigitsEnd(s, b + 1) ELSE b
        mag == DigitsVal(s, a, b) * One + (IF hasFrac THEN FracVal(s, b + 1, c) ELSE 0)
    IN  IF b = a \/ (hasFrac /\ c = b + 1)
        THEN Fail
        ELSE Ok(Num(IF neg THEN 0 - mag ELSE mag), c)

\* the index of the quote closing a string whose body starts at j, 0 if
\* there is none or a backslash comes first
StringEnd(s, j) ==
    LET quote == IndexFrom(s, "\"", j)
        escape == IndexFrom(s, "\\", j)
    IN  IF escape # 0 /\ escape < quote THEN 0 ELSE quote

ParseString(s, i) ==
    LET j == StringEnd(s, i + 1)
    IN  IF j = 0 THEN Fail ELSE Ok(Str(SubSeq(s, i + 1, j - 1)), j + 1)

ParseLiteral(s, i, word, v) ==
    IF i + Len(word) - 1 <= Len(s) /\ SubSeq(s, i, i + Len(word) - 1) = word
    THEN Ok(v, i + Len(word))
    ELSE Fail

RECURSIVE ParseValue(_, _)
RECURSIVE ParseMembers(_, _, _)
RECURSIVE ParseElements(_, _, _)

ParseValue(s, i0) ==
    LET i == SkipWs(s, i0)
    IN  IF i > Len(s) THEN Fail
        ELSE CASE s[i] = "{" ->
                    LET j == SkipWs(s, i + 1)
                    IN  IF j <= Len(s) /\ s[j] = "}"
                        THEN Ok(Obj(<<>>), j + 1)
                        ELSE ParseMembers(s, j, <<>>)
               [] s[i] = "[" ->
                    LET j == SkipWs(s, i + 1)
                    IN  IF j <= Len(s) /\ s[j] = "]"
                        THEN Ok(Arr(<<>>), j + 1)
                        ELSE ParseElements(s, j, <<>>)
               [] s[i] = "\"" -> ParseString(s, i)
               [] s[i] = "-" \/ s[i] \in Digits -> ParseNumber(s, i)
               [] s[i] = "t" -> ParseLiteral(s, i, <<"t", "r", "u", "e">>, Bool(TRUE))
               [] s[i] = "f" -> ParseLiteral(s, i, <<"f", "a", "l", "s", "e">>, Bool(FALSE))
               [] s[i] = "n" -> ParseLiteral(s, i, <<"n", "u", "l", "l">>, Null)
               [] OTHER -> Fail

\* the members of an object from index i, where a key must start
ParseMembers(s, i, acc) ==
    IF i > Len(s) \/ s[i] # "\"" THEN Fail
    ELSE LET k == ParseString(s, i)
             c == SkipWs(s, k.i)
         IN  IF ~k.ok \/ c > Len(s) \/ s[c] # ":" THEN Fail
             ELSE LET v == ParseValue(s, c + 1)
                      d == SkipWs(s, v.i)
                      more == Append(acc, [k |-> k.v.s, v |-> v.v])
                  IN  IF ~v.ok \/ d > Len(s) THEN Fail
                      ELSE IF s[d] = "}" THEN Ok(Obj(more), d + 1)
                      ELSE IF s[d] = "," THEN ParseMembers(s, SkipWs(s, d + 1), more)
                      ELSE Fail

\* the elements of an array from index i, where a value must start
ParseElements(s, i, acc) ==
    LET v == ParseValue(s, i)
        d == SkipWs(s, v.i)
        more == Append(acc, v.v)
    IN  IF ~v.ok \/ d > Len(s) THEN Fail
        ELSE IF s[d] = "]" THEN Ok(Arr(more), d + 1)
        ELSE IF s[d] = "," THEN ParseElements(s, d + 1, more)
        ELSE Fail

\* JSON.parse(text): [ok, v]; ok = FALSE is the SyntaxError
JSONParse(s) ==
    LET r == ParseValue(s, 1)
    IN  IF r.ok /\ SkipWs(s, r.i) > Len(s)
        THEN [ok |-> TRUE, v |-> r.v]
        ELSE [ok |-> FALSE, v |-> Undefined]

(***************************************************************************)
(* JavaScript operators used by the handler.                               *)
(***************************************************************************)
\* ToBoolean: what `!x` and `x || y` test
Truthy(v) ==
    CASE v.t = "undefined" -> FALSE
      [] v.t = "null" -> FALSE
      [] v.t = "nan" -> FALSE
      [] v.t = "number" -> v.n # 0
      [] v.t = "string" -> Len(v.s) > 0
      [] v.t = "boolean" -> v.b
      [] OTHER -> TRUE

IsNullish(v) == v.t \in {"undefined", "null"}

RECURSIVE TrimEnd(_, _)
\* the index of the last non-whitespace character of s[1..j], 0 if none
TrimEnd(s, j) == IF j >= 1 /\ IsWs(s[j]) THEN TrimEnd(s, j - 1) ELSE j

\* ToNumber of a string: optional sign, digits, optional fraction; an empty
\* or blank string is 0; anything else is NaN
StringToNumber(s0) ==
    LET s == SubSeq(s0, SkipWs(s0, 1), TrimEnd(s0, Len(s0)))
        signed == Len(s) > 0 /\ s[1] \in {"+", "-"}
        p == IF signed THEN 2 ELSE 1
        b == DigitsEnd(s, p)
        hasDot == b <= Len(s) /\ s[b] = "."
        c == IF hasDot THEN DigitsEnd(s, b + 1) ELSE b
        mag == DigitsVal(s, p, b) * One + (IF hasDot THEN FracVal(s, b + 1, c) ELSE 0)
    IN  IF Len(s) = 0 THEN Num(0)
        ELSE IF c = Len(s) + 1 /\ (b > p \/ (hasDot /\ c > b + 1))
        THEN Num(IF signed /\ s[1] = "-" THEN 0 - mag ELSE mag)
        ELSE NaN

RECURSIVE ToNumber(_)
\* ToNumber: what Math.max and Math.min apply to their arguments.  An
\* array converts through its join(","): [] is "", [x] is String(x).
ToNumber(v) ==
    CASE v.t = "number" -> v
      [] v.t = "nan" -> NaN
      [] v.t = "undefined" -> NaN
      [] v.t = "null" -> Num(0)
      [] v.t = "boolean" -> Num(IF v.b THEN One ELSE 0)
      [] v.t = "string" -> StringToNumber(v.s)
      [] v.t = "array" ->
            IF Len(v.a) = 0 THEN Num(0)
            ELSE IF Len(v.a) > 1 THEN NaN
            ELSE IF IsNullish(v.a[1]) THEN Num(0)
            ELSE IF v.a[1].t \in {"number", "string", "array"} THEN ToNumber(v.a[1])
            ELSE NaN
      [] OTHER -> NaN

\* Math.max(a, b) and Math.min(a, b): NaN if either argument converts to NaN
MathMax(a, b) ==
    LET x == ToNumber(a)
        y == ToNumber(b)
    IN  IF x.t = "nan" \/ y.t = "nan" THEN NaN
        ELSE IF x.n >= y.n THEN x ELSE y

MathMin(a, b) ==
    LET x == ToNumber(a)
        y == ToNumber(b)
    IN  IF x.t = "nan" \/ y.t = "nan" THEN NaN
        ELSE IF x.n <= y.n THEN x ELSE y

\* a || b
OrElse(a, b) == IF Truthy(a) THEN a ELSE b

\* v.key for a v that is neither null nor undefined: an own member of an
\* object (the last one of that name), undefined on anything else
GetProp(v, key) ==
    IF v.t # "object" THEN Undefined
    ELSE LET idx == {i \in 1..Len(v.m) : v.m[i].k = key}
         IN  IF idx = {} THEN Undefined
             ELSE v.m[CHOOSE i \in idx : \A j \in idx : j <= i].v

\* v?.[0] for a v that is neither null nor undefined
GetIndex0(v) ==
    CASE v.t = "array" -> IF Len(v.a) > 0 THEN v.a[1] ELSE Undefined
      [] v.t = "string" -> IF Len(v.s) > 0 THEN Str(<<v.s[1]>>) ELSE Undefined
      [] OTHER -> GetProp(v, <<"0">>)

\* Array.prototype.find over a list of strings, given the indices whose
\* element satisfies the callback: the first such element as a string
\* value, undefined when there is none
Find(list, hits) ==
    IF hits = {} THEN Undefined
    ELSE Str(list[CHOOSE i \in hits : \A j \in hits : i <= j])

\* JSON.stringify of a property value: NaN is written as null; undefined
\* stays undefined, which stands for a property left out of the object
Stringified(v) == IF v.t = "nan" THEN Null ELSE v

(***************************************************************************)
(* The handler's constants.                                                *)
(***************************************************************************)
Plastic == <<"P", "l", "a", "s", "t", "i", "c">>
Paper == <<"P", "a", "p", "e", "r">>
Organic == <<"O", "r", "g", "a", "n", "i", "c">>
Metal == <<"M", "e", "t", "a", "l">>
Glass == <<"G", "l", "a", "s", "s">>

\* const categories / const validCategories
Categories == <<Plastic, Paper, Organic, Metal, Glass>>

KeyCategory == <<"c", "a", "t", "e", "g", "o", "r", "y">>
KeyConfidence == <<"c", "o", "n", "f", "i", "d", "e", "n", "c", "e">>
KeyReasoning == <<"r", "e", "a", "s", "o", "n", "i", "n", "g">>
KeyChoices == <<"c", "h", "o", "i", "c", "e", "s">>
KeyMessage == <<"m", "e", "s", "s", "a", "g", "e">>
KeyContent == <<"c", "o", "n", "t", "e", "n", "t">>

DefaultReasoning ==
    <<"C", "l", "a", "s", "s", "i", "f", "i", "c", "a", "t", "i", "o", "n", " ", "b", "a", "s", "e", "d", " ", "o", "n", " ", "v", "i", "s", "u", "a", "l", " ", "a", "n", "a", "l", "y", "s", "i", "s">>

\* const corsHeaders
CorsHeaders ==
    { <<"Access-Control-Allow-Origin", "*">>,
      <<"Access-Control-Allow-Headers", "authorization, x-client-info, apikey, content-type">> }

JsonHeaders == CorsHeaders \cup {<<"Content-Type", "application/json">>}

(***************************************************************************)
(* Lines 103-143: from the completion text to the success payload.         *)
(* A step that can throw returns [thrown, v].                              *)
(***************************************************************************)
Returned(v) == [thrown |-> FALSE, v |-> v]
Thrown == [thrown |-> TRUE, v |-> Undefined]

\* KeywordFallback looking for the labels in their canonical casing only
KeywordFallback_CaseSensitive(text) ==
    LET hits == {i \in 1..Len(Categories) : Includes(text, Categories[i])}
        foundCategory == Find(Categories, hits)
    IN  Obj(<< [k |-> KeyCategory, v |-> OrElse(foundCategory, Str(Plastic))],
               [k |-> KeyConfidence, v |-> Num(FallbackConfidence)],
               [k |-> KeyReasoning, v |-> Str(Substring0(text, ReasoningLimit))] >>)

\* the catch block of the parse: the keyword fallback
KeywordFallback(text) ==
    LET lower == ToLowerCase(text)
        hits == {i \in 1..Len(Categories) :
                    Includes(lower, ToLowerCase(Categories[i]))}
        foundCategory == Find(Categories, hits)
    IN  Obj(<< [k |-> KeyCategory, v |-> OrElse(foundCategory, Str(Plastic))],
               [k |-> KeyConfidence, v |-> Num(FallbackConfidence)],
               [k |-> KeyReasoning, v |-> Str(Substring0(text, ReasoningLimit))] >>)

\* the text handed to JSON.parse: jsonMatch[0] if the pattern matched,
\* else the whole completion
ParsedText(text) ==
    LET jsonMatch == MatchBraces(text)
    IN  IF jsonMatch.found THEN jsonMatch.m ELSE text

\* let result; try { ... } catch (parseError) { ... }
ExtractResult(text) ==
    LET parsed == JSONParse(ParsedText(text))
    IN  IF parsed.ok THEN parsed.v ELSE KeywordFallback(text)

\* validCategories.find(cat => cat.toLowerCase() === result.category?.toLowerCase())
\*   || result.category
NormalizedCategory(result) ==
    IF IsNullish(result) THEN Thrown
    ELSE LET category == GetProp(result, KeyCategory)
             hits == {i \in 1..Len(Categories) :
                         ToLowerCase(Categories[i]) = ToLowerCase(category.s)}
         IN  IF IsNullish(category) THEN Returned(category)
             ELSE IF category.t # "string" THEN Thrown
             ELSE Returned(OrElse(Find(Categories, hits), category))

\* Math.min(Math.max(result.confidence || 0.8, 0), 1)
NormalizedConfidence(result) ==
    MathMin(MathMax(OrElse(GetProp(result, KeyConfidence), Num(DefaultConfidence)),
                    Num(0)),
            Num(One))

\* result.reasoning || 'Classification based on visual analysis'
NormalizedReasoning(result) ==
    OrElse(GetProp(result, KeyReasoning), Str(DefaultReasoning))

(***************************************************************************)
(* The inputs: what the caller sends and what the model endpoint answers.  *)
(***************************************************************************)
\* how many times the long completions repeat their filler sentence
MaxPad == 2

Methods == {"OPTIONS", "POST", "GET"}

File(type) == [t |-> "file", type |-> type]

\* what formData.get('image') returns: null when the field is absent, a
\* string for a text field, a File for an uploaded file
ImageFields ==
    {Null, Str(<<>>), Str(<<"x">>), File("image/png"), File("text/plain")}

\* the request body: one req.formData() cannot read, or a form
RequestBodies ==
    {[kind |-> "invalid", image |-> Null]}
        \cup {[kind |-> "form", image |-> f] : f \in ImageFields}

\* the inbound requests; only a POST carries a form
Requests ==
    {r \in [method : Methods, body : RequestBodies] :
        r.body.kind = "form" => r.method = "POST"}

\* status codes of the model endpoint; response.ok is 200..299
UpstreamStatuses == {200, 401, 402, 429, 500}

\* bodies of a non-success answer of the model endpoint
UpstreamErrorTexts == {"upstream: quota details", "upstream: <html>bad gateway</html>"}

Join(a, b) ==
    IF a = <<>> THEN b ELSE IF b = <<>> THEN a ELSE a \o <<",">> \o b

CategoryMembers ==
    { <<>>,
      <<"\"", "c", "a", "t", "e", "g", "o", "r", "y", "\"", ":", "\"", "p", "l", "a", "s", "t", "i", "c", "\"">>,
      <<"\"", "c", "a", "t", "e", "g", "o", "r", "y", "\"", ":", "\"", "G", "l", "a", "s", "s", "\"">>,
      <<"\"", "c", "a", "t", "e", "g", "o", "r", "y", "\"", ":", "\"", "w", "o", "o", "d", "\"">>,
      <<"\"", "c", "a", "t", "e", "g", "o", "r", "y", "\"", ":", "5">>,
      <<"\"", "c", "a", "t", "e", "g", "o", "r", "y", "\"", ":", "n", "u", "l", "l">> }

ConfidenceMembers ==
    { <<>>,
      <<"\"", "c", "o", "n", "f", "i", "d", "e", "n", "c", "e", "\"", ":", "0", ".", "9", "2">>,
      <<"\"", "c", "o", "n", "f", "i", "d", "e", "n", "c", "e", "\"", ":", "1", ".", "4">>,
      <<"\"", "c", "o", "n", "f", "i", "d", "e", "n", "c", "e", "\"", ":", "-", "0", ".", "5">>,
      <<"\"", "c", "o", "n", "f", "i", "d", "e", "n", "c", "e", "\"", ":", "0">>,
      <<"\"", "c", "o", "n", "f", "i", "d", "e", "n", "c", "e", "\"", ":", "\"", "h", "i", "g", "h", "\"">>,
      <<"\"", "c", "o", "n", "f", "i", "d", "e", "n", "c", "e", "\"", ":", "\"", "0", ".", "5", "\"">>,
      <<"\"", "c", "o", "n", "f", "i", "d", "e", "n", "c", "e", "\"", ":", "n", "u", "l", "l">>,
      <<"\"", "c", "o", "n", "f", "i", "d", "e", "n", "c", "e", "\"", ":", "t", "r", "u", "e">>,
      <<"\"", "c", "o", "n", "f", "i", "d", "e", "n", "c", "e", "\"", ":", "[", "7", "]">> }

ReasoningMembers ==
    { <<>>,
      <<"\"", "r", "e", "a", "s", "o", "n", "i", "n", "g", "\"", ":", "\"", "b", "o", "t", "t", "l", "e", " ", "s", "h", "a", "p", "e", "\"">>,
      <<"\"", "r", "e", "a", "s", "o", "n", "i", "n", "g", "\"", ":", "\"", "\"">> }

\* completions holding an object
ObjectTexts ==
    { <<"{">> \o Join(Join(cat, conf), reas) \o <<"}">> :
        cat \in CategoryMembers, conf \in ConfidenceMembers,
        reas \in ReasoningMembers }

\* completions cut off before the closing brace of their object
CutOffTexts == { <<"{">> \o cat : cat \in CategoryMembers }

\* completions that are another JSON value, or no JSON at all
PlainTexts ==
    { <<>>,
      <<"n", "u", "l", "l">>,
      <<"4", "2">>,
      <<"0">>,
      <<"t", "r", "u", "e">>,
      <<"\"", "g", "l", "a", "s", "s", "\"">>,
      <<"I", " ", "t", "h", "i", "n", "k", " ", "t", "h", "i", "s", " ", "i", "s", " ", "m", "a", "d", "e", " ", "o", "f", " ", "M", "E", "T", "A", "L", " ", "a", "n", "d", " ", "r", "e", "c", "y", "c", "l", "a", "b", "l", "e">>,
      <<"g", "l", "a", "s", "s", " ", "o", "r", " ", "O", "r", "g", "a", "n", "i", "c", " ", "w", "a", "s", "t", "e">>,
      <<"u", "n", "k", "n", "o", "w", "n", " ", "i", "t", "e", "m">> }

TextPrefixes ==
    { <<>>,
      <<"S", "u", "r", "e", "!", " ", "H", "e", "r", "e", " ", "i", "s", " ", "m", "y", " ", "a", "n", "s", "w", "e", "r", ":", " ">>,
      <<"[">>,
      <<"p", "a", "p", "e", "r", " ", "o", "r", " ">> }

TextSuffixes ==
    { <<>>,
      <<"]">>,
      <<" ", "o", "k">> }

Filler ==
    <<"t", "h", "e", " ", "i", "t", "e", "m", " ", "i", "n", " ", "t", "h", "e", " ", "p", "h", "o", "t", "o", " ", "l", "o", "o", "k", "s", " ", "l", "i", "k", "e", " ", "a", " ", "u", "s", "e", "d", " ", "c", "o", "n", "t", "a", "i", "n", "e", "r", " ", "w", "i", "t", "h", " ", "a", " ", "p", "r", "i", "n", "t", "e", "d", " ", "l", "a", "b", "e", "l", " ", "a", "n", "d", " ", "a", " ", "s", "c", "r", "e", "w", " ", "c", "a", "p", " ", "t", "h", "a", "t", " ", "w", "a", "s", " ", "l", "e", "f", "t", " ", "o", "n", " ", "a", " ", "t", "a", "b", "l", "e", ".", " ">>

RECURSIVE Repeat(_, _)
Repeat(s, n) == IF n = 0 THEN <<>> ELSE s \o Repeat(s, n - 1)

\* prose longer than the reasoning limit, with a label before or after it
LongTexts ==
    { pre \o Repeat(Filler, n) \o post :
        n \in 1..MaxPad,
        pre \in {<<>>, <<"M", "E", "T", "A", "L", " ">>},
        post \in {<<>>, <<"g", "l", "a", "s", "s">>} }

\* the completion texts: the content of choices[0].message
Texts ==
    { pre \o core \o post :
        pre \in TextPrefixes,
        core \in ObjectTexts \cup CutOffTexts \cup PlainTexts,
        post \in TextSuffixes }
        \cup LongTexts

\* the body of a success answer as response.json() returns it
Completion(content) ==
    Obj(<< [k |-> KeyChoices,
            v |-> Arr(<< Obj(<< [k |-> KeyMessage,
                                 v |-> Obj(<< [k |-> KeyContent, v |-> content] >>)] >>) >>)] >>)

UpstreamData ==
    { Null,
      Str(<<"o", "k">>),
      Obj(<<>>),
      Obj(<< [k |-> KeyChoices, v |-> Null] >>),
      Obj(<< [k |-> KeyChoices, v |-> Arr(<<>>)] >>),
      Obj(<< [k |-> KeyChoices, v |-> Arr(<< Obj(<<>>) >>)] >>),
      Obj(<< [k |-> KeyChoices, v |-> Arr(<< Obj(<< [k |-> KeyMessage, v |-> Null] >>) >>)] >>),
      Completion(Null),
      Completion(Num(500)),
      Completion(Bool(TRUE)),
      Completion(Arr(<< Str(<<"x">>) >>)) }
        \cup {Completion(Str(text)) : text \in Texts}

(***************************************************************************)
(* The WasteClassifier component: the files a user hands it and its state. *)
(***************************************************************************)
\* file.size > 10 * 1024 * 1024
MaxFileSize == 10 * 1024 * 1024

\* String.prototype.startsWith
StartsWith(s, prefix) ==
    Len(s) >= Len(prefix) /\ SubSeq(s, 1, Len(prefix)) = prefix

ImagePrefix == <<"i", "m", "a", "g", "e", "/">>

\* File.type of the chosen file; empty when the browser knows no type for it
FileTypes ==
    { <<>>,
      <<"i", "m", "a", "g", "e">>,
      <<"i", "m", "a", "g", "e", "/", "p", "n", "g">>,
      <<"i", "m", "a", "g", "e", "/", "s", "v", "g", "+", "x", "m", "l">>,
      <<"t", "e", "x", "t", "/", "p", "l", "a", "i", "n">>,
      <<"a", "p", "p", "l", "i", "c", "a", "t", "i", "o", "n", "/", "i", "m", "a", "g", "e", "/", "x">> }

\* File.size in bytes
FileSizes == {0, 1, 4096, MaxFileSize - 1, MaxFileSize, MaxFileSize + 1}

\* the files a drop or a file input hands to handleFile
Files == [type : FileTypes, size : FileSizes]

NoFile == [type |-> <<>>, size |-> -1]

\* what supabase.functions.invoke resolves with: { data, error }
InvokeResults ==
    { [error |-> "FunctionsHttpError", data |-> [kind |-> "none"]],
      [error |-> "none", data |-> [kind |-> "error", error |-> "Rate limit exceeded. Please try again later."]],
      [error |-> "none", data |-> [kind |-> "result", category |-> "Plastic", confidence |-> 92]],
      [error |-> "none", data |-> [kind |-> "result", category |-> "wood", confidence |-> DefaultConfidence]] }

NoToast == [kind |-> "none", title |-> ""]
Toast(kind, title) == [kind |-> kind, title |-> title]

\* the component after mounting: the useState initial values, no file handed
\* over, nothing being read, nothing submitted
Mounted ==
    [image |-> NoFile,          \* the preview: the data URL of a file, or null
     isLoading |-> FALSE,
     result |-> [kind |-> "none"],
     file |-> NoFile,           \* the argument of the last handleFile call
     reading |-> NoFile,        \* the file a FileReader is still reading
     invoked |-> <<>>,          \* the form body of the invoke awaited
     toast |-> NoToast]         \* the last toast shown

(***************************************************************************)
(* The state of one handler invocation.                                    *)
(***************************************************************************)
VARIABLES
    env,          \* Deno.env: the value of LOVABLE_API_KEY
    pc,           \* where the invocation is: idle, entry, an await, done, hung
    req,          \* the inbound request: method and body
    keyRead,      \* whether the invocation has called Deno.env.get
    bodyRead,     \* whether the invocation has called req.formData
    outbound,     \* the requests the invocation has sent to the model endpoint
    response,     \* the model endpoint's answer: [status, ok]
    errorText,    \* the body read from a non-success answer
    aiResponse,   \* data.choices?.[0]?.message?.content
    result,       \* the parsed or fallback result
    log,          \* the console lines written
    sent,         \* the responses returned to the caller
    ui            \* the WasteClassifier component in the browser

\* the variables of the handler
handlerVars ==
    <<env, pc, req, keyRead, bodyRead, outbound, response, errorText,
      aiResponse, result, log, sent>>

vars == <<handlerVars, ui>>

\* LOVABLE_API_KEY: unset, set to the empty string, or set
EnvValues == {Undefined, Str(<<>>), Str(<<"k", "e", "y">>)}

NoRequest == [method |-> "none", body |-> [kind |-> "invalid", image |-> Null]]
NoResponse == [status |-> 0, ok |-> FALSE]

Init ==
    /\ env \in EnvValues
    /\ pc = "idle"
    /\ req = NoRequest
    /\ keyRead = FALSE
    /\ bodyRead = FALSE
    /\ outbound = <<>>
    /\ response = NoResponse
    /\ errorText = ""
    /\ aiResponse = Undefined
    /\ result = Undefined
    /\ log = <<>>
    /\ sent = <<>>
    /\ ui = Mounted

(***************************************************************************)
(* The responses.                                                          *)
(***************************************************************************)
\* new Response(null, { headers: corsHeaders })
PreflightResponse ==
    [status |-> 200, headers |-> CorsHeaders, body |-> [kind |-> "none"]]

JsonResponse(status, json) ==
    [status |-> status, headers |-> JsonHeaders,
     body |-> [kind |-> "json", json |-> json]]

\* the responses that carry only an error message
ErrorResponse(status, message) == JsonResponse(status, [error |-> message])

\* the response of the top-level catch
ErrorEnvelope(message) ==
    JsonResponse(500, [error |-> message,
                       details |-> "Failed to classify waste. Please try again."])

\* the success payload; JSON.stringify leaves out an undefined category
SuccessResponse(category, confidence, reasoning) ==
    JsonResponse(200,
        IF category.t = "undefined"
        THEN [confidence |-> Stringified(confidence),
              reasoning |-> Stringified(reasoning)]
        ELSE [category |-> Stringified(category),
              confidence |-> Stringified(confidence),
              reasoning |-> Stringified(reasoning)])

Logged(level, line, args) == [level |-> level, line |-> line, args |-> args]

\* return a response: the invocation ends
Return(r) ==
    /\ sent' = Append(sent, r)
    /\ pc' = "done"

\* Catch with the error logged and no response returned
Catch_NoResponse(message, logged) ==
    /\ log' = log \o logged
                  \o <<Logged("error", "Error in classify-waste function:", message)>>
    /\ sent' = sent
    /\ pc' = "done"

\* an exception reaches the top-level catch
Catch(message, logged) ==
    /\ log' = log \o logged
                  \o <<Logged("error", "Error in classify-waste function:", message)>>
    /\ Return(ErrorEnvelope(message))

(***************************************************************************)
(* The handler, one action per stretch of code between two awaits.         *)
(***************************************************************************)
\* the runtime calls the handler with a request
Receive(request) ==
    /\ pc = "idle"
    /\ pc' = "entry"
    /\ req' = request
    /\ UNCHANGED <<ui, env, keyRead, bodyRead, outbound, response, errorText,
                   aiResponse, result, log, sent>>

\* if (req.method === 'OPTIONS')
Preflight ==
    /\ pc = "entry"
    /\ req.method = "OPTIONS"
    /\ Return(PreflightResponse)
    /\ UNCHANGED <<ui, env, req, keyRead, bodyRead, outbound, response, errorText,
                   aiResponse, result, log>>

\* MissingKey with the credential checked before the preflight test
MissingKey_BeforePreflight ==
    /\ pc = "entry"
    /\ keyRead' = TRUE
    /\ ~Truthy(env)
    /\ Catch(<<"LOVABLE_API_KEY not configured">>, <<>>)
    /\ UNCHANGED <<ui, env, req, bodyRead, outbound, response, errorText,
                   aiResponse, result>>

\* if (!LOVABLE_API_KEY) throw
MissingKey ==
    /\ pc = "entry"
    /\ req.method # "OPTIONS"
    /\ keyRead' = TRUE
    /\ ~Truthy(env)
    /\ Catch(<<"LOVABLE_API_KEY not configured">>, <<>>)
    /\ UNCHANGED <<ui, env, req, bodyRead, outbound, response, errorText,
                   aiResponse, result>>

\* ReadFormData with the body read before the credential is checked
ReadFormData_BeforeKeyCheck ==
    /\ pc = "entry"
    /\ req.method # "OPTIONS"
    /\ keyRead' = TRUE
    /\ bodyRead' = TRUE
    /\ pc' = "formData"
    /\ UNCHANGED <<ui, env, req, outbound, response, errorText, aiResponse,
                   result, log, sent>>

\* await req.formData()
ReadFormData ==
    /\ pc = "entry"
    /\ req.method # "OPTIONS"
    /\ keyRead' = TRUE
    /\ Truthy(env)
    /\ bodyRead' = TRUE
    /\ pc' = "formData"
    /\ UNCHANGED <<ui, env, req, outbound, response, errorText, aiResponse,
                   result, log, sent>>

\* req.formData() rejects: the body is not form data
FormDataRejects ==
    /\ pc = "formData"
    /\ req.body.kind = "invalid"
    /\ Catch(<<"TypeError: the body is not form data">>, <<>>)
    /\ UNCHANGED <<ui, env, req, keyRead, bodyRead, outbound, response, errorText,
                   aiResponse, result>>

\* MissingImage with the missing field thrown as an error, not returned
MissingImage_Thrown ==
    /\ pc = "formData"
    /\ req.body.kind = "form"
    /\ ~Truthy(req.body.image)
    /\ Catch(<<"No image provided">>, <<>>)
    /\ UNCHANGED <<ui, env, req, keyRead, bodyRead, outbound, response, errorText,
                   aiResponse, result>>

\* if (!imageFile) return 400
MissingImage ==
    /\ pc = "formData"
    /\ req.body.kind = "form"
    /\ ~Truthy(req.body.image)
    /\ Return(ErrorResponse(400, <<"No image provided">>))
    /\ UNCHANGED <<ui, env, req, keyRead, bodyRead, outbound, response, errorText,
                   aiResponse, result, log>>

\* imageFile.arrayBuffer() on a text field: a string has no such method
NotAFile ==
    /\ pc = "formData"
    /\ req.body.kind = "form"
    /\ Truthy(req.body.image)
    /\ req.body.image.t # "file"
    /\ Catch(<<"TypeError: imageFile.arrayBuffer is not a function">>, <<>>)
    /\ UNCHANGED <<ui, env, req, keyRead, bodyRead, outbound, response, errorText,
                   aiResponse, result>>

\* await imageFile.arrayBuffer()
ReadImage ==
    /\ pc = "formData"
    /\ req.body.kind = "form"
    /\ req.body.image.t = "file"
    /\ pc' = "arrayBuffer"
    /\ UNCHANGED <<ui, env, req, keyRead, bodyRead, outbound, response, errorText,
                   aiResponse, result, log, sent>>

\* the POST to the model endpoint, with the image inline
ModelCall ==
    [url |-> "https://ai.gateway.lovable.dev/v1/chat/completions",
     authorization |-> env,
     image |-> [mime |-> req.body.image.type, encoding |-> "base64"]]

\* the image is encoded and fetch is called
CallModel ==
    /\ pc = "arrayBuffer"
    /\ log' = Append(log, Logged("log", "Calling Lovable AI for waste classification...", <<>>))
    /\ outbound' = Append(outbound, ModelCall)
    /\ pc' = "fetch"
    /\ UNCHANGED <<ui, env, req, keyRead, bodyRead, response, errorText,
                   aiResponse, result, sent>>

\* fetch rejects: the endpoint cannot be reached
FetchRejects ==
    /\ pc = "fetch"
    /\ Catch(<<"TypeError: error sending request">>, <<>>)
    /\ UNCHANGED <<ui, env, req, keyRead, bodyRead, outbound, response, errorText,
                   aiResponse, result>>

\* fetch resolves; if (!response.ok) await response.text() else await response.json()
FetchResolves(status) ==
    /\ pc = "fetch"
    /\ response' = [status |-> status, ok |-> status \in 200..299]
    /\ pc' = IF response'.ok THEN "json" ELSE "text"
    /\ UNCHANGED <<ui, env, req, keyRead, bodyRead, outbound, errorText,
                   aiResponse, result, log, sent>>

\* UpstreamFailure with the credits branch missing
UpstreamFailure_RateLimitOnly(status) ==
    ErrorResponse(429, <<"Rate limit exceeded. Please try again later.">>)

\* the response for a non-success status
UpstreamFailure(status) ==
    IF status = 429
    THEN ErrorResponse(429, <<"Rate limit exceeded. Please try again later.">>)
    ELSE ErrorResponse(402, <<"AI credits exhausted. Please add credits to your workspace.">>)

\* TextResolves with a rate-limited call issued again
TextResolves_Retry(text) ==
    /\ pc = "text"
    /\ errorText' = text
    /\ log' = Append(log, Logged("error", "AI Gateway error:",
                                 <<ToString(response.status), text>>))
    /\ IF response.status = 429
       THEN /\ outbound' = Append(outbound, ModelCall)
            /\ pc' = "fetch"
            /\ sent' = sent
       ELSE /\ outbound' = outbound
            /\ Return(ErrorEnvelope(<<"AI Gateway error: ", ToString(response.status)>>))
    /\ UNCHANGED <<ui, env, req, keyRead, bodyRead, response, aiResponse, result>>

\* lines 75-91: the body of a non-success answer has been read
TextResolves(text) ==
    /\ pc = "text"
    /\ errorText' = text
    /\ LET logged == <<Logged("error", "AI Gateway error:", <<ToString(response.status), text>>)>>
       IN  IF response.status \in {429, 402}
           THEN /\ log' = log \o logged
                /\ Return(UpstreamFailure(response.status))
           ELSE Catch(<<"AI Gateway error: ", ToString(response.status)>>, logged)
    /\ UNCHANGED <<ui, env, req, keyRead, bodyRead, outbound, response,
                   aiResponse, result>>

\* response.text() rejects: the body cannot be read
TextRejects ==
    /\ pc = "text"
    /\ Catch(<<"TypeError: error reading a body from connection">>, <<>>)
    /\ UNCHANGED <<ui, env, req, keyRead, bodyRead, outbound, response, errorText,
                   aiResponse, result>>

\* response.json() rejects: the body cannot be read or is not JSON
JsonRejects ==
    /\ pc = "json"
    /\ Catch(<<"SyntaxError: Unexpected token">>, <<>>)
    /\ UNCHANGED <<ui, env, req, keyRead, bodyRead, outbound, response, errorText,
                   aiResponse, result>>

\* data.choices?.[0]?.message?.content
ContentOf(data) ==
    IF IsNullish(data) THEN Thrown
    ELSE LET choices == GetProp(data, KeyChoices)
             first == IF IsNullish(choices) THEN Undefined ELSE GetIndex0(choices)
             message == IF IsNullish(first) THEN Undefined ELSE GetProp(first, KeyMessage)
         IN  Returned(IF IsNullish(message) THEN Undefined
                      ELSE GetProp(message, KeyContent))

\* lines 94-143: response.json() resolves with data; the completion is
\* taken out, parsed, normalised and returned
JsonResolves(data) ==
    /\ pc = "json"
    /\ LET content == ContentOf(data)
           seen == <<Logged("log", "AI Response:", content.v)>>
           extracted == ExtractResult(content.v.s)
           failed == IF JSONParse(ParsedText(content.v.s)).ok THEN <<>>
                     ELSE <<Logged("error", "Failed to parse AI response:", content.v)>>
           category == NormalizedCategory(extracted)
       IN  IF content.thrown
           THEN /\ aiResponse' = Undefined
                /\ result' = Undefined
                /\ Catch(<<"TypeError: Cannot read properties of null">>, <<>>)
           ELSE /\ aiResponse' = content.v
                /\ IF ~Truthy(content.v)
                   THEN /\ result' = Undefined
                        /\ Catch(<<"No response from AI">>, seen)
                   ELSE IF content.v.t # "string"
                   THEN /\ result' = Undefined
                        /\ Catch(<<"TypeError: aiResponse.toLowerCase is not a function">>,
                                 seen \o <<Logged("error", "Failed to parse AI response:", content.v)>>)
                   ELSE /\ result' = extracted
                        /\ IF category.thrown
                           THEN Catch(<<"TypeError: result.category?.toLowerCase">>,
                                      seen \o failed)
                           ELSE /\ log' = log \o seen \o failed
                                /\ Return(SuccessResponse(category.v,
                                                          NormalizedConfidence(extracted),
                                                          NormalizedReasoning(extracted)))
    /\ UNCHANGED <<ui, env, req, keyRead, bodyRead, outbound, response, errorText>>

\* an await whose I/O never completes: the invocation stays suspended
Hang ==
    /\ pc \in {"formData", "arrayBuffer", "fetch", "text", "json"}
    /\ pc' = "hung"
    /\ UNCHANGED <<ui, env, req, keyRead, bodyRead, outbound, response, errorText,
                   aiResponse, result, log, sent>>

\* the invocation is over: its response went out, or its caller gave up;
\* nothing of it is kept
Finish ==
    /\ pc \in {"done", "hung"}
    /\ pc' = "idle"
    /\ req' = NoRequest
    /\ keyRead' = FALSE
    /\ bodyRead' = FALSE
    /\ outbound' = <<>>
    /\ response' = NoResponse
    /\ errorText' = ""
    /\ aiResponse' = Undefined
    /\ result' = Undefined
    /\ log' = <<>>
    /\ sent' = <<>>
    /\ UNCHANGED <<ui, env>>

\* the operator sets or unsets the credential between invocations
Configure(value) ==
    /\ pc = "idle"
    /\ env' = value
    /\ env' # env
    /\ UNCHANGED <<ui, pc, req, keyRead, bodyRead, outbound, response, errorText,
                   aiResponse, result, log, sent>>

\* the steps the handler takes by itself once its I/O has completed
Step ==
    \/ Preflight
    \/ MissingKey
    \/ ReadFormData
    \/ FormDataRejects
    \/ MissingImage
    \/ NotAFile
    \/ ReadImage
    \/ CallModel
    \/ FetchRejects
    \/ \E status \in UpstreamStatuses : FetchResolves(status)
    \/ \E text \in UpstreamErrorTexts : TextResolves(text)
    \/ TextRejects
    \/ JsonRejects
    \/ \E data \in UpstreamData : JsonResolves(data)

Next ==
    \/ \E request \in Requests : Receive(request)
    \/ Step
    \/ Hang
    \/ Finish
    \/ \E value \in EnvValues : Configure(value)

Spec == Init /\ [][Next]_vars

\* every await that does not hang completes, and the handler then runs on
FairSpec == Spec /\ WF_vars(Step) /\ WF_vars(Finish)

(***************************************************************************)
(* The WasteClassifier component, one action per handler or callback.      *)
(***************************************************************************)
\* {!image && !isLoading && ( ... )}: the drop zone and the file inputs are
\* rendered, so that handleDrop and handleFileInput can hand over a file
UploadShown == ui.image = NoFile /\ ~ui.isLoading

\* handleFile, lines 57-62: the file is no image
RejectType(file) ==
    /\ UploadShown
    /\ ~StartsWith(file.type, ImagePrefix)
    /\ ui' = [ui EXCEPT !.file = file,
                        !.toast = Toast("error", "Please select a valid image file")]
    /\ UNCHANGED handlerVars

\* handleFile, lines 64-70: the file is larger than 10 MiB
RejectSize(file) ==
    /\ UploadShown
    /\ StartsWith(file.type, ImagePrefix)
    /\ file.size > MaxFileSize
    /\ ui' = [ui EXCEPT !.file = file,
                        !.toast = Toast("error", "Image too large")]
    /\ UNCHANGED handlerVars

\* handleFile, lines 72-80, and classifyImage, lines 24-33: the preview is
\* requested from a FileReader, the form is built and the function invoked
HandleFile(file) ==
    /\ UploadShown
    /\ StartsWith(file.type, ImagePrefix)
    /\ file.size <= MaxFileSize
    /\ ui' = [ui EXCEPT !.file = file,
                        !.reading = file,
                        !.isLoading = TRUE,
                        !.result = [kind |-> "none"],
                        !.invoked = <<[kind |-> "form", image |-> file]>>]
    /\ UNCHANGED handlerVars

\* reader.onload: setImage(e.target?.result)
ReaderLoads ==
    /\ ui.reading # NoFile
    /\ ui' = [ui EXCEPT !.image = ui.reading, !.reading = NoFile]
    /\ UNCHANGED handlerVars

\* the FileReader fails: no handler is registered for its error
ReaderFails ==
    /\ ui.reading # NoFile
    /\ ui' = [ui EXCEPT !.reading = NoFile]
    /\ UNCHANGED handlerVars

\* classifyImage, lines 35-53: the invoke resolves
InvokeResolves(r) ==
    /\ ui.invoked # <<>>
    /\ ui' = [ui EXCEPT
                !.invoked = <<>>,
                !.isLoading = FALSE,
                !.result = IF r.error = "none" /\ r.data.kind = "result"
                           THEN r.data ELSE ui.result,
                !.toast = IF r.error # "none"
                          THEN Toast("error", "Failed to classify image")
                          ELSE IF r.data.kind = "error"
                          THEN Toast("error", r.data.error)
                          ELSE Toast("success", "Image classified successfully!")]
    /\ UNCHANGED handlerVars

\* handleReset, lines 100-106; both of its buttons are rendered inside
\* {(image || isLoading) && ...} and only when !isLoading
HandleReset ==
    /\ ~ui.isLoading
    /\ ui.image # NoFile
    /\ ui' = [ui EXCEPT !.image = NoFile,
                        !.result = [kind |-> "none"],
                        !.isLoading = FALSE]
    /\ UNCHANGED handlerVars

UINext ==
    \/ \E file \in Files : RejectType(file)
    \/ \E file \in Files : RejectSize(file)
    \/ \E file \in Files : HandleFile(file)
    \/ ReaderLoads
    \/ ReaderFails
    \/ \E r \in InvokeResults : InvokeResolves(r)
    \/ HandleReset

\* the component alone, the function taken as what invoke resolves with
UISpec == Init /\ [][UINext]_vars

(***************************************************************************)
(* The claims.                                                             *)
(***************************************************************************)
\* the invocation has returned its response
Done == pc = "done" /\ Len(sent) = 1

\* the invocation has returned the classification result
Succeeded == Done /\ sent[1].status = 200 /\ sent[1].body.kind = "json"

\* the invocation has returned the 500 error envelope
Failed ==
    /\ Done
    /\ sent[1].status = 500
    /\ sent[1].body.kind = "json"
    /\ DOMAIN sent[1].body.json = {"error", "details"}

\* the fields of the classification result
Payload == sent[1].body.json

\* the confidence and the category the parse or the fallback produced
ParsedConfidence == GetProp(result, KeyConfidence)
ParsedCategory == GetProp(result, KeyCategory)

\* the five labels in canonical casing
Labels == {Categories[i] : i \in 1..Len(Categories)}

\* the completion was a non-empty text returned with a success status
GotText == response.ok /\ aiResponse.t = "string" /\ Len(aiResponse.s) > 0

\* the request is not a preflight and its form has no image field
NoImageField ==
    /\ req.method \notin {"none", "OPTIONS"}
    /\ req.body.kind = "form"
    /\ req.body.image = Null

\* C1: in every HTTP 200 classification response the confidence field is a
\* number between 0 and 1 inclusive, whatever confidence the completion carried
C1_ConfidenceInUnitInterval ==
    Succeeded =>
        /\ "confidence" \in DOMAIN Payload
        /\ Payload.confidence.t = "number"
        /\ Payload.confidence.n >= 0
        /\ Payload.confidence.n <= One

\* C2: the normalizer never raises: every non-empty completion text returned
\* with a success status ends in the HTTP 200 result, never in the HTTP 500
\* error envelope
C2_NormalizerNeverRaises ==
    (Done /\ GotText) => Succeeded

\* C3: in every HTTP 200 classification response the category field is present
\* and is one of the five labels in canonical casing, except that a parsed
\* category string matching no label case-insensitively is returned unchanged
C3_CategoryInClosedSet ==
    Succeeded =>
        /\ "category" \in DOMAIN Payload
        /\ Payload.category.t = "string"
        /\ \/ Payload.category.s \in Labels
           \/ /\ ParsedCategory.t = "string"
              /\ \A label \in Labels :
                    ToLowerCase(label) # ToLowerCase(ParsedCategory.s)
              /\ Payload.category = ParsedCategory

\* C4 as stated: a non-preflight request with no image field is answered with
\* HTTP 400 {error: "No image provided"} whether the credential is present or
\* absent, and no call to the model endpoint is made
C4_MissingImageAlways400 ==
    (Done /\ NoImageField) =>
        /\ sent[1] = ErrorResponse(400, <<"No image provided">>)
        /\ outbound = <<>>

\* C4 as amended: a non-preflight request with no image field is answered with
\* HTTP 400 {error: "No image provided"} when the credential is present and
\* with the HTTP 500 configuration error when it is absent; in both cases no
\* call to the model endpoint is made
C4_MissingImage400WhenConfigured ==
    (Done /\ NoImageField) =>
        /\ outbound = <<>>
        /\ Truthy(env) =>
              /\ sent[1].status = 400
              /\ sent[1].headers = JsonHeaders
              /\ sent[1].body.kind = "json"
              /\ DOMAIN sent[1].body.json = {"error"}
              /\ sent[1].body.json.error = <<"No image provided">>
        /\ ~Truthy(env) =>
              /\ Failed
              /\ sent[1].body.json.error = <<"LOVABLE_API_KEY not configured">>

\* C4 witness: a configured handler has answered a form without image field
C4_Witness ==
    Done /\ NoImageField /\ Truthy(env) /\ bodyRead /\ sent[1].status = 400

\* C5: with the credential absent, a non-preflight request is never suspended
\* on I/O, never has its body read, never causes a call to the model endpoint,
\* and ends with the HTTP 500 error envelope
C5_AbsentCredentialFailsFast ==
    (req.method \notin {"none", "OPTIONS"} /\ ~Truthy(env)) =>
        /\ pc \in {"entry", "done"}
        /\ ~bodyRead
        /\ outbound = <<>>
        /\ pc = "done" =>
              /\ Failed
              /\ keyRead
              /\ sent[1].body.json.error = <<"LOVABLE_API_KEY not configured">>

\* C5 witness: a request carrying an image was refused for the absent credential
C5_Witness ==
    /\ Failed
    /\ req.method = "POST"
    /\ req.body.kind = "form"
    /\ req.body.image.t = "file"
    /\ ~Truthy(env)

\* what the status of a non-success answer maps to
MappedStatus(status) == IF status \in {429, 402} THEN status ELSE 500

\* the body of the non-success answer was read and logged
ErrorTextRead ==
    \E i \in 1..Len(log) : log[i].line = "AI Gateway error:"

\* C6 as stated: a non-success answer of the model endpoint is mapped by its
\* status alone, 429 to HTTP 429, 402 to HTTP 402, any other to HTTP 500, and
\* its body appears nowhere in the response
C6_UpstreamFailureByStatus ==
    (Done /\ response.status # 0 /\ ~response.ok) =>
        /\ sent[1].status = MappedStatus(response.status)
        /\ sent[1].body.kind = "json"
        /\ \A i \in 1..Len(sent[1].body.json.error) :
              sent[1].body.json.error[i] # errorText

\* C6 as amended: a non-success answer whose body has been read is mapped by
\* its status alone, 429 to HTTP 429 with the rate-limit message, 402 to HTTP
\* 402 with the credits message, any other to the HTTP 500 envelope; when
\* reading the body fails the answer is the HTTP 500 envelope whatever the
\* status; the upstream body appears nowhere in the response
C6_UpstreamFailureByStatusOnceRead ==
    (Done /\ response.status # 0 /\ ~response.ok) =>
        /\ sent[1].body.kind = "json"
        /\ \A i \in 1..Len(sent[1].body.json.error) :
              sent[1].body.json.error[i] # errorText
        /\ ~ErrorTextRead => Failed
        /\ ErrorTextRead =>
              /\ sent[1].status = MappedStatus(response.status)
              /\ response.status = 429 =>
                    sent[1] = ErrorResponse(429,
                        <<"Rate limit exceeded. Please try again later.">>)
              /\ response.status = 402 =>
                    sent[1] = ErrorResponse(402,
                        <<"AI credits exhausted. Please add credits to your workspace.">>)
              /\ response.status \notin {429, 402} =>
                    /\ Failed
                    /\ sent[1].body.json.error =
                          <<"AI Gateway error: ", ToString(response.status)>>

\* C6 witness: an exhausted-credits answer was read and mapped to HTTP 402
C6_Witness ==
    Done /\ response.status = 402 /\ ErrorTextRead /\ sent[1].status = 402

\* C7: an invocation issues at most one call to the model endpoint, and
\* exactly one has been issued whenever its answer is awaited or handled
C7_AtMostOneModelCall ==
    /\ Len(outbound) <= 1
    /\ pc \in {"fetch", "text", "json"} => Len(outbound) = 1
    /\ response.status # 0 => Len(outbound) = 1

\* C7 witness: a rate-limited answer was surfaced after a single call
C7_Witness ==
    Done /\ response.status = 429 /\ sent[1].status = 429 /\ Len(outbound) = 1

\* C8: a preflight request is answered with the CORS headers and an empty
\* body; the credential is not read, the body is not read, nothing is logged
\* and no call is made, also when the credential is absent
C8_PreflightOnly ==
    req.method = "OPTIONS" =>
        /\ pc \in {"entry", "done"}
        /\ ~keyRead
        /\ ~bodyRead
        /\ outbound = <<>>
        /\ log = <<>>
        /\ pc = "done" =>
              /\ Len(sent) = 1
              /\ sent[1].status = 200
              /\ sent[1].headers = CorsHeaders
              /\ sent[1].body.kind = "none"

\* C8 witness: a preflight was answered while the credential was absent
C8_Witness ==
    Done /\ req.method = "OPTIONS" /\ ~Truthy(env) /\ sent[1].status = 200

\* an exception reached the top-level catch
Caught ==
    \E i \in 1..Len(log) : log[i].line = "Error in classify-waste function:"

\* the response is one the handler may send
WellFormedResponse(r) ==
    /\ r.status \in {200, 400, 402, 429, 500}
    /\ CorsHeaders \subseteq r.headers

\* C9, safety: a request never has more than one response, has exactly one
\* when the handler is done, with a status among 200, 400, 402, 429, 500 and
\* the CORS headers; a caught exception is answered with the 500 envelope
C9_OneResponse ==
    /\ Len(sent) <= 1
    /\ pc = "done" => Len(sent) = 1
    /\ pc # "done" => sent = <<>>
    /\ \A i \in 1..Len(sent) : WellFormedResponse(sent[i])
    /\ (pc = "done" /\ Caught) => Failed

\* C9: every request whose I/O waits complete eventually receives exactly one
\* response, with a status among 200, 400, 402, 429, 500 and the CORS headers,
\* and every exception raised after the preflight check becomes the HTTP 500
\* envelope {error, details}
C9_EveryRequestAnswered ==
    /\ []C9_OneResponse
    /\ (pc = "entry") ~> (Done \/ pc = "hung")

\* C9 witness: an exception raised by the normalisation was answered
C9_Witness ==
    Failed /\ Caught /\ GotText

\* clamping into [0, 1], in hundredths
Clamp(n) == IF n < 0 THEN 0 ELSE IF n > One THEN One ELSE n

\* C10: the default 0.8 is used only when the parsed confidence is absent or
\* not a number; a numeric parsed confidence c is returned as min(max(c, 0), 1),
\* so that 0 is returned as 0
C10_NumericConfidenceClamped ==
    (Succeeded /\ ParsedConfidence.t = "number") =>
        Payload.confidence = Num(Clamp(ParsedConfidence.n))

\* the parse failed and the handler took the keyword fallback
FallbackTaken ==
    \E i \in 1..Len(log) : log[i].line = "Failed to parse AI response:"

\* the label occurs somewhere in the text, whatever the casing of either
Occurs(label, text) ==
    \E i \in 1..(Len(text) - Len(label) + 1) :
        \A j \in 1..Len(label) : Lower(text[i + j - 1]) = Lower(label[j])

\* the first label, in the set order, that occurs in the text; Plastic if none
FirstLabel(text) ==
    IF \A i \in 1..Len(Categories) : ~Occurs(Categories[i], text)
    THEN Plastic
    ELSE Categories[CHOOSE i \in 1..Len(Categories) :
                        /\ Occurs(Categories[i], text)
                        /\ \A j \in 1..(i - 1) : ~Occurs(Categories[j], text)]

\* the first min(n, length) characters of the text
Prefix(text, n) == [i \in 1..(IF Len(text) < n THEN Len(text) ELSE n) |-> text[i]]

\* C11: when the parse of a completion text fails, the request ends in the
\* HTTP 200 result whose category is the first of Plastic, Paper, Organic,
\* Metal, Glass occurring case-insensitively in the text, or Plastic when none
\* occurs, whose confidence is 0.75 and whose reasoning is the first
\* min(200, length) characters of the text
C11_KeywordFallback ==
    (Done /\ GotText /\ FallbackTaken) =>
        /\ Succeeded
        /\ DOMAIN Payload = {"category", "confidence", "reasoning"}
        /\ Payload.category = Str(FirstLabel(aiResponse.s))
        /\ Payload.confidence = Num(FallbackConfidence)
        /\ Payload.reasoning = Str(Prefix(aiResponse.s, ReasoningLimit))

\* C11 witness: a text longer than 200 characters naming METAL before glass
\* was answered from the fallback
C11_Witness ==
    /\ Succeeded
    /\ GotText
    /\ FallbackTaken
    /\ Len(aiResponse.s) > ReasoningLimit
    /\ Occurs(Metal, aiResponse.s)
    /\ Occurs(Glass, aiResponse.s)
    /\ ~Includes(aiResponse.s, Metal)
    /\ Payload.category = Str(Metal)
    /\ Len(Payload.reasoning.s) = ReasoningLimit

\* the ClassificationRequest invariant on the file of a request
ValidRequestFile(file) ==
    /\ file.size > 0
    /\ StartsWith(file.type, ImagePrefix)
    /\ file.size <= MaxFileSize

\* C12: every request the component submits carries a non-empty file whose
\* type begins with image/ and whose size is at most 10 MiB, and a file
\* handed to handleFile that violates any of these is not submitted
C12_SubmittedRequestsValid ==
    /\ \A i \in 1..Len(ui.invoked) : ValidRequestFile(ui.invoked[i].image)
    /\ (ui.file # NoFile /\ ~ValidRequestFile(ui.file)) =>
          (ui.invoked = <<>> /\ ~ui.isLoading)

\* the result of the keyword tier of the reference procedure
KeywordTier(text) ==
    Obj(<< [k |-> KeyCategory, v |-> Str(FirstLabel(text))],
           [k |-> KeyConfidence, v |-> Num(FallbackConfidence)],
           [k |-> KeyReasoning, v |-> Str(Prefix(text, ReasoningLimit))] >>)

\* the three-tier reference procedure: the whole text is parsed first; the
\* stretch from the first "{" to the last "}" is parsed only when that fails;
\* the keyword tier is used only when both fail
ThreeTier(text) ==
    LET strict == JSONParse(text)
        scan == MatchBraces(text)
        embedded == IF scan.found THEN JSONParse(scan.m) ELSE Fail
    IN  IF strict.ok THEN strict.v
        ELSE IF embedded.ok THEN embedded.v
        ELSE KeywordTier(text)

\* C13: for every completion text the response of the handler is the one
\* derived from the result of the three-tier reference procedure, which parses
\* the whole text first, scans for the embedded object only when that fails,
\* and falls back to the keywords only when both fail
C13_ThreeTierOrder ==
    (Done /\ GotText) =>
        LET reference == ThreeTier(aiResponse.s)
            category == NormalizedCategory(reference)
        IN  IF category.thrown
            THEN Failed
            ELSE sent[1] = SuccessResponse(category.v,
                                           NormalizedConfidence(reference),
                                           NormalizedReasoning(reference))


====
